---- MODULE Spec2Model ----
(***************************************************************************)
(* Model of the Postgres warehouse client (PostgresClient and              *)
(* PostgresWarehouseClient): SSL mode parsing, the two type-mapping        *)
(* tables, connect / runQuery / test / getCatalog and the catalog          *)
(* reduction.                                                              *)
(***************************************************************************)
EXTENDS Integers, Sequences, FiniteSets, TLC

VARIABLES
    credentials,  \* the FullPostgresCredentials handed to the constructor
    client,       \* the PostgresClient object: config, sshTunnel (or a failed construction)
    pc,           \* position of the running call: idle, sshConnect, addTunnel, newPool, query, done
    op,           \* the public method that is running: none, runQuery, test, getCatalog
    requests,     \* the argument of the running getCatalog
    config,       \* connect's local copy of this.config
    events,       \* calls made to the pg / ssh2 libraries (and failures they raised) in this call
    results,      \* what pool.query resolved to: fields and rows
    outcome,      \* what the running call returned or threw to its caller
    completed,    \* how many calls on this client have run to their end
    typeName,     \* input of mapFieldType (mapping specification)
    dataTypeId,   \* input of convertDataTypeIdToDimensionType (mapping specification)
    mapped        \* outputs of the two mapping functions (mapping specification)

vars == <<credentials, client, pc, op, requests, config, events, results, outcome,
          completed, typeName, dataTypeId, mapped>>

----------------------------------------------------------------------------
(* Bounds *)

MaxRequests == 2
MaxRows == 2
MaxFields == 2
MaxCalls == 2

RECURSIVE SeqsUpTo(_, _)
SeqsUpTo(S, n) ==
    IF n = 0 THEN {<<>>}
    ELSE LET shorter == SeqsUpTo(S, n - 1)
         IN  shorter \cup {Append(s, x) : s \in {t \in shorter : Len(t) = n - 1}, x \in S}

----------------------------------------------------------------------------
(* DimensionType and the SSL modes *)

DimensionType == {"NUMBER", "DATE", "TIMESTAMP", "BOOLEAN", "STRING"}

SSLError(mode) == [threw |-> TRUE, message |-> <<"SSL mode \"", mode, "\" not understood.">>,
                   ssl |-> "undefined"]

SSLValue(v) == [threw |-> FALSE, message |-> <<>>, ssl |-> v]

getSSLConfigFromMode(mode) ==
    CASE mode = "disable" -> SSLValue("false")
      [] mode = "no-verify" -> SSLValue("rejectUnauthorized:false")
      [] mode \in {"allow", "prefer", "require", "verify-ca", "verify-full"} -> SSLValue("true")
      [] OTHER -> SSLError(mode)

----------------------------------------------------------------------------
(* PostgresTypes and mapFieldType *)

PostgresTypes ==
    {"integer", "int", "int2", "int4", "int8", "money", "smallserial", "serial",
     "serial2", "serial4", "serial8", "bigserial", "bigint", "smallint", "boolean",
     "bool", "date", "double precision", "float", "float4", "float8", "json", "jsonb",
     "numeric", "decimal", "real", "char", "character", "nchar", "bpchar", "varchar",
     "character varying", "nvarchar", "text", "time", "timetz",
     "time without time zone", "timestamp", "timestamptz",
     "timestamp without time zone"}

mapFieldTypeDefaultNumber(type) ==
    CASE type \in {"decimal", "numeric", "integer", "money", "smallserial", "serial",
                   "serial2", "serial4", "serial8", "bigserial", "int2", "int4", "int8",
                   "bigint", "smallint", "float", "float4", "float8",
                   "double precision", "real"} -> "NUMBER"
      [] type = "date" -> "DATE"
      [] type \in {"time", "timetz", "timestamp", "timestamptz",
                   "time without time zone", "timestamp without time zone"} -> "TIMESTAMP"
      [] type \in {"boolean", "bool"} -> "BOOLEAN"
      [] OTHER -> "NUMBER"

mapFieldType(type) ==
    CASE type \in {"decimal", "numeric", "integer", "money", "smallserial", "serial",
                   "serial2", "serial4", "serial8", "bigserial", "int2", "int4", "int8",
                   "bigint", "smallint", "float", "float4", "float8",
                   "double precision", "real"} -> "NUMBER"
      [] type = "date" -> "DATE"
      [] type \in {"time", "timetz", "timestamp", "timestamptz",
                   "time without time zone", "timestamp without time zone"} -> "TIMESTAMP"
      [] type \in {"boolean", "bool"} -> "BOOLEAN"
      [] OTHER -> "STRING"

----------------------------------------------------------------------------
(* pg.types.builtins and convertDataTypeIdToDimensionType *)

BuiltinBOOL == 16
BuiltinINT8 == 20
BuiltinINT2 == 21
BuiltinINT4 == 23
BuiltinTEXT == 25
BuiltinFLOAT4 == 700
BuiltinFLOAT8 == 701
BuiltinMONEY == 790
BuiltinVARCHAR == 1043
BuiltinDATE == 1082
BuiltinTIME == 1083
BuiltinTIMESTAMP == 1114
BuiltinTIMESTAMPTZ == 1184
BuiltinTIMETZ == 1266
BuiltinNUMERIC == 1700

convertDataTypeIdToDimensionType(id) ==
    CASE id \in {BuiltinNUMERIC, BuiltinMONEY, BuiltinINT2, BuiltinINT4, BuiltinINT8,
                 BuiltinFLOAT4, BuiltinFLOAT8} -> "NUMBER"
      [] id = BuiltinDATE -> "DATE"
      [] id \in {BuiltinTIME, BuiltinTIMETZ, BuiltinTIMESTAMP, BuiltinTIMESTAMPTZ} -> "TIMESTAMP"
      [] id = BuiltinBOOL -> "BOOLEAN"
      [] OTHER -> "STRING"

----------------------------------------------------------------------------
(* Values: strings that the code transforms are sequences of chunks *)

EmptyObject == [k \in {} |-> {}]

Put(obj, key, value) ==
    [k \in (DOMAIN obj) \cup {key} |-> IF k = key THEN value ELSE obj[k]]

Localhost == <<"localhost">>

Unreserved == {"d", "b", "u", "p", "w", "1", "."}

PercentEncoding(ch) ==
    CASE ch = "/" -> <<"%2F">>
      [] ch = "@" -> <<"%40">>
      [] ch = " " -> <<"%20">>

RECURSIVE encodeURIComponent(_)
encodeURIComponent(s) ==
    IF s = <<>> THEN <<>>
    ELSE (IF Head(s) \in Unreserved THEN <<Head(s)>> ELSE PercentEncoding(Head(s)))
         \o encodeURIComponent(Tail(s))

\* JavaScript truthiness of an optional string: undefined is <<>>, a string s is <<s>>
Truthy(optString) == optString # <<>> /\ optString[1] # ""

----------------------------------------------------------------------------
(* Credentials and construction *)

NoTunnel == [set |-> FALSE]

Tunnels == {[set |-> TRUE, host |-> <<"b", "1">>, port |-> 22]}

RecognisedModes ==
    {"disable", "no-verify", "allow", "prefer", "require", "verify-ca", "verify-full"}

SslModes ==
    {<<>>} \cup {<<m>> : m \in RecognisedModes \cup {"", "verify", "DISABLE", "required"}}

CredentialHosts == {<<"d", "b">>, <<"d", "/", "b">>}

CredentialPorts == {5432, 5433}

AllCredentials ==
    [host : CredentialHosts, port : CredentialPorts, dbname : {<<"d", " ", "1">>},
     user : {<<"u">>}, password : {<<"p", "@", "w">>}, sslmode : SslModes,
     sshTunnel : {NoTunnel} \cup Tunnels]

NoConfig == [set |-> FALSE]

NoClient == [constructed |-> FALSE, error |-> <<>>, config |-> NoConfig, sshTunnel |-> NoTunnel]

PostgresClient(cfg, tunnel) ==
    [constructed |-> TRUE, error |-> <<>>, config |-> cfg, sshTunnel |-> tunnel]

sslOfCredentials(c) ==
    IF Truthy(c.sslmode) THEN getSSLConfigFromMode(c.sslmode[1]) ELSE SSLValue("undefined")

PostgresWarehouseClient(c) ==
    LET ssl == sslOfCredentials(c)
    IN  IF ssl.threw
        THEN [constructed |-> FALSE, error |-> ssl.message, config |-> NoConfig,
              sshTunnel |-> NoTunnel]
        ELSE PostgresClient([set |-> TRUE,
                             host |-> encodeURIComponent(c.host),
                             port |-> c.port,
                             database |-> encodeURIComponent(c.dbname),
                             user |-> encodeURIComponent(c.user),
                             password |-> encodeURIComponent(c.password),
                             ssl |-> ssl.ssl],
                            c.sshTunnel)

----------------------------------------------------------------------------
(* Errors, library events, results *)

ErrorMessages == {<<"connect ECONNREFUSED">>, <<"timeout expired">>}

LibError(message) == [name |-> "Error", message |-> message]

WarehouseConnectionError(message) == [name |-> "WarehouseConnectionError", message |-> message]

WarehouseQueryError(message) == [name |-> "WarehouseQueryError", message |-> message]

NoError == [name |-> "none", message |-> <<>>]

\* connect's catch block
connectCatch(e) == WarehouseConnectionError(e.message)

runQueryCatchFixedMessage(e) == WarehouseQueryError(<<"query failed">>)

\* runQuery's catch block: it surrounds both the await of connect and pool.query
runQueryCatch(e) == WarehouseQueryError(e.message)

Event(name, arg) == [e |-> name, arg |-> arg]

NoArg == [set |-> FALSE]

Pending == [status |-> "pending", error |-> NoError, value |-> NoArg]

Returned(value) == [status |-> "returned", error |-> NoError, value |-> value]

Threw(error) == [status |-> "threw", error |-> error, value |-> NoArg]

NoResults == [set |-> FALSE]

----------------------------------------------------------------------------
(* SQL texts and the rows of information_schema.columns *)

Columns == {"c1", "c2"}
RowDataTypes == {"integer", "text"}

Path(database, schema, table) == [database |-> database, schema |-> schema, table |-> table]

\* the requests a caller may make; the third shares each part with one of the others
Requests == {Path("db1", "s1", "t1"), Path("db2", "s2", "t2"), Path("db1", "s2", "t1")}

\* the tables the warehouse may hold: the requested ones and one nobody asks for
WarehouseTables == Requests \cup {Path("db2", "s1", "t2")}

CatalogRows ==
    {[table_catalog |-> p.database, table_schema |-> p.schema, table_name |-> p.table,
      column_name |-> c, data_type |-> t] :
         p \in WarehouseTables, c \in Columns, t \in RowDataTypes}

Quote(s) == <<"'", s, "'">>

PlainSql(text) == [text |-> text, databases |-> {}, schemas |-> {}, tables |-> {}]

CatalogSql(databases, schemas, tables) ==
    [text |-> "information_schema.columns", databases |-> databases,
     schemas |-> schemas, tables |-> tables]

\* the WHERE clause of the catalog query: three independent IN lists
Where(sql, row) ==
    /\ Quote(row.table_catalog) \in sql.databases
    /\ Quote(row.table_schema) \in sql.schemas
    /\ Quote(row.table_name) \in sql.tables

PlainRows == {[a |-> 1]}

FieldDescs == [name : {"a", "b"}, dataTypeID : {BuiltinINT4, BuiltinTEXT, BuiltinDATE}]

CatalogFields ==
    <<[name |-> "table_catalog", dataTypeID |-> BuiltinVARCHAR],
      [name |-> "table_schema", dataTypeID |-> BuiltinVARCHAR],
      [name |-> "table_name", dataTypeID |-> BuiltinVARCHAR],
      [name |-> "column_name", dataTypeID |-> BuiltinVARCHAR],
      [name |-> "data_type", dataTypeID |-> BuiltinVARCHAR]>>

\* what pool.query may resolve to for a given SQL text
QueryResults(sql) ==
    IF sql.text = "information_schema.columns"
    THEN [set : {TRUE}, fields : {CatalogFields},
          rows : SeqsUpTo({r \in CatalogRows : Where(sql, r)}, MaxRows)]
    ELSE [set : {TRUE}, fields : SeqsUpTo(FieldDescs, MaxFields),
          rows : SeqsUpTo(PlainRows, MaxRows)]

----------------------------------------------------------------------------
(* The reductions of runQuery and getCatalog *)

RECURSIVE fieldsReduce(_, _)
fieldsReduce(acc, fields) ==
    IF fields = <<>> THEN acc
    ELSE fieldsReduce(
             Put(acc, Head(fields).name,
                 [type |-> convertDataTypeIdToDimensionType(Head(fields).dataTypeID)]),
             Tail(fields))

requestSets(reqs) ==
    [databases |-> {Quote(reqs[i].database) : i \in 1..Len(reqs)},
     schemas |-> {Quote(reqs[i].schema) : i \in 1..Len(reqs)},
     tables |-> {Quote(reqs[i].table) : i \in 1..Len(reqs)}]

emptyRequestSetsStrict(sets) ==
    \/ Cardinality(sets.databases) < 0
    \/ Cardinality(sets.schemas) < 0
    \/ Cardinality(sets.tables) < 0

\* the early return of getCatalog
emptyRequestSets(sets) ==
    \/ Cardinality(sets.databases) <= 0
    \/ Cardinality(sets.schemas) <= 0
    \/ Cardinality(sets.tables) <= 0

requestsFindIndependent(reqs, row) ==
    /\ \E i \in 1..Len(reqs) : reqs[i].database = row.table_catalog
    /\ \E i \in 1..Len(reqs) : reqs[i].schema = row.table_schema
    /\ \E i \in 1..Len(reqs) : reqs[i].table = row.table_name

\* requests.find(...): is there one request equal to the row's path
requestsFind(reqs, row) ==
    \E i \in 1..Len(reqs) :
        /\ reqs[i].database = row.table_catalog
        /\ reqs[i].schema = row.table_schema
        /\ reqs[i].table = row.table_name

OrEmpty(obj, key) == IF key \in DOMAIN obj THEN obj[key] ELSE EmptyObject

catalogAssignKeepFirst(acc, row) ==
    LET byCatalog == OrEmpty(acc, row.table_catalog)
        bySchema == OrEmpty(byCatalog, row.table_schema)
        byTable == OrEmpty(bySchema, row.table_name)
        value == IF row.column_name \in DOMAIN byTable THEN byTable[row.column_name]
                 ELSE mapFieldType(row.data_type)
    IN  Put(acc, row.table_catalog,
            Put(byCatalog, row.table_schema,
                Put(bySchema, row.table_name,
                    Put(byTable, row.column_name, value))))

\* the four assignments made for a matching row
catalogAssign(acc, row) ==
    LET byCatalog == OrEmpty(acc, row.table_catalog)
        bySchema == OrEmpty(byCatalog, row.table_schema)
        byTable == OrEmpty(bySchema, row.table_name)
    IN  Put(acc, row.table_catalog,
            Put(byCatalog, row.table_schema,
                Put(bySchema, row.table_name,
                    Put(byTable, row.column_name, mapFieldType(row.data_type)))))

RECURSIVE catalogReduce(_, _, _)
catalogReduce(acc, rows, reqs) ==
    IF rows = <<>> THEN acc
    ELSE catalogReduce(
             IF requestsFind(reqs, Head(rows)) THEN catalogAssign(acc, Head(rows)) ELSE acc,
             Tail(rows), reqs)

NotMapped == [fieldType |-> "unset", dimensionType |-> "unset"]

----------------------------------------------------------------------------
(* The client: one call at a time, each call a chain of awaits *)

MainCredentials ==
    {c \in AllCredentials : c.sslmode = <<"disable">> /\ c.port = 5432}

LocalPorts == {40001, 40002}

Callable == client.constructed /\ pc = "idle" /\ completed < MaxCalls

RunningSql == events[1].arg

tunnelledConfigPortOnly(cfg, localPort) == [cfg EXCEPT !.port = localPort]

\* the local config once the tunnel is up
tunnelledConfig(cfg, localPort) == [cfg EXCEPT !.host = Localhost, !.port = localPort]

thisConfigAliased(stored, local) == local

\* this.config after connect has written to its local config: the local one is a
\* spread copy, so the stored one is what it was
thisConfig(stored, local) == stored

\* runQuery called: connect is called, and runs up to its first await
startRunQuery(method, reqs, sql) ==
    /\ op' = method
    /\ requests' = reqs
    /\ config' = client.config
    /\ events' = <<Event("runQuery", sql), Event("connect", NoArg)>>
    /\ results' = NoResults
    /\ outcome' = Pending
    /\ pc' = IF client.sshTunnel.set THEN "sshConnect" ELSE "newPool"
    /\ UNCHANGED <<credentials, client, completed, typeName, dataTypeId, mapped>>

runQuery ==
    /\ Callable
    /\ \E text \in {"SELECT 1", "SELECT a, b FROM t"} :
           startRunQuery("runQuery", <<>>, PlainSql(text))

test ==
    /\ Callable
    /\ startRunQuery("test", <<>>, PlainSql("SELECT 1"))

getCatalog ==
    /\ Callable
    /\ \E reqs \in SeqsUpTo(Requests, MaxRequests) :
           LET sets == requestSets(reqs)
           IN  IF emptyRequestSets(sets)
               THEN /\ op' = "getCatalog"
                    /\ requests' = reqs
                    /\ config' = NoConfig
                    /\ events' = <<>>
                    /\ results' = NoResults
                    /\ outcome' = Returned([catalog |-> EmptyObject])
                    /\ pc' = "done"
                    /\ UNCHANGED <<credentials, client, completed, typeName, dataTypeId, mapped>>
               ELSE startRunQuery("getCatalog", reqs,
                                  CatalogSql(sets.databases, sets.schemas, sets.tables))

\* a library call inside connect rejects or throws: connect's catch, then runQuery's catch
connectFails(at) ==
    \E message \in ErrorMessages :
        /\ events' = Append(events, Event("throw", [at |-> at, error |-> LibError(message)]))
        /\ outcome' = Threw(runQueryCatch(connectCatch(LibError(message))))
        /\ pc' = "done"
        /\ UNCHANGED <<credentials, client, op, requests, config, results,
                       completed, typeName, dataTypeId, mapped>>

sshConnectResolves ==
    /\ pc = "sshConnect"
    /\ events' = Append(events, Event("ssh.connect",
                                      [host |-> client.sshTunnel.host,
                                       port |-> client.sshTunnel.port]))
    /\ pc' = "addTunnel"
    /\ UNCHANGED <<credentials, client, op, requests, config, results, outcome,
                   completed, typeName, dataTypeId, mapped>>

sshConnectRejects ==
    /\ pc = "sshConnect"
    /\ connectFails("ssh.connect")

addTunnelResolves ==
    /\ pc = "addTunnel"
    /\ \E localPort \in LocalPorts :
           /\ events' = Append(events, Event("ssh.addTunnel",
                                             [remoteAddr |-> config.host,
                                              remotePort |-> config.port,
                                              localPort |-> localPort]))
           /\ config' = tunnelledConfig(config, localPort)
           /\ client' = [client EXCEPT !.config = thisConfig(client.config, config')]
    /\ pc' = "newPool"
    /\ UNCHANGED <<credentials, op, requests, results, outcome, completed,
                   typeName, dataTypeId, mapped>>

addTunnelRejects ==
    /\ pc = "addTunnel"
    /\ connectFails("ssh.addTunnel")

\* new pg.Pool(config) returns, connect resolves, runQuery calls pool.query(sql)
newPool ==
    /\ pc = "newPool"
    /\ events' = events \o <<Event("new Pool", config), Event("pool.query", RunningSql)>>
    /\ pc' = "query"
    /\ UNCHANGED <<credentials, client, op, requests, config, results, outcome,
                   completed, typeName, dataTypeId, mapped>>

newPoolThrows ==
    /\ pc = "newPool"
    /\ connectFails("new Pool")

\* what the running method returns once pool.query has resolved
returnValue(method, reqs, res) ==
    CASE method = "runQuery" ->
             [fields |-> fieldsReduce(EmptyObject, res.fields), rows |-> res.rows]
      [] method = "test" -> [void |-> TRUE]
      [] method = "getCatalog" -> [catalog |-> catalogReduce(EmptyObject, res.rows, reqs)]

queryResolves ==
    /\ pc = "query"
    /\ \E res \in QueryResults(RunningSql) :
           /\ results' = res
           /\ outcome' = Returned(returnValue(op, requests, res))
    /\ pc' = "done"
    /\ UNCHANGED <<credentials, client, op, requests, config, events,
                   completed, typeName, dataTypeId, mapped>>

queryRejects ==
    /\ pc = "query"
    /\ \E message \in ErrorMessages :
           /\ events' = Append(events, Event("throw", [at |-> "pool.query",
                                                       error |-> LibError(message)]))
           /\ outcome' = Threw(runQueryCatch(LibError(message)))
    /\ pc' = "done"
    /\ UNCHANGED <<credentials, client, op, requests, config, results,
                   completed, typeName, dataTypeId, mapped>>

\* the caller has taken the result or the error: the call's locals are gone
settle ==
    /\ pc = "done"
    /\ pc' = "idle"
    /\ op' = "none"
    /\ requests' = <<>>
    /\ config' = NoConfig
    /\ events' = <<>>
    /\ results' = NoResults
    /\ outcome' = Pending
    /\ completed' = completed + 1
    /\ UNCHANGED <<credentials, client, typeName, dataTypeId, mapped>>

Init ==
    /\ credentials \in MainCredentials
    /\ client = PostgresWarehouseClient(credentials)
    /\ pc = "idle"
    /\ op = "none"
    /\ requests = <<>>
    /\ config = NoConfig
    /\ events = <<>>
    /\ results = NoResults
    /\ outcome = Pending
    /\ completed = 0
    /\ typeName = "text"
    /\ dataTypeId = BuiltinTEXT
    /\ mapped = NotMapped

Next ==
    \/ runQuery
    \/ test
    \/ getCatalog
    \/ sshConnectResolves
    \/ sshConnectRejects
    \/ addTunnelResolves
    \/ addTunnelRejects
    \/ newPool
    \/ newPoolThrows
    \/ queryResolves
    \/ queryRejects
    \/ settle

Spec == Init /\ [][Next]_vars

----------------------------------------------------------------------------
(* Construction of PostgresWarehouseClient from any credentials *)

construct ==
    /\ client = NoClient
    /\ client' = PostgresWarehouseClient(credentials)
    /\ UNCHANGED <<credentials, pc, op, requests, config, events, results, outcome,
                   completed, typeName, dataTypeId, mapped>>

ConstructInit ==
    /\ credentials \in AllCredentials
    /\ client = NoClient
    /\ pc = "idle"
    /\ op = "none"
    /\ requests = <<>>
    /\ config = NoConfig
    /\ events = <<>>
    /\ results = NoResults
    /\ outcome = Pending
    /\ completed = 0
    /\ typeName = "text"
    /\ dataTypeId = BuiltinTEXT
    /\ mapped = NotMapped

ConstructNext == construct

ConstructSpec == ConstructInit /\ [][ConstructNext]_vars

----------------------------------------------------------------------------
(* The two mapping functions applied to any type name and any type OID *)

TypeNames == PostgresTypes \cup {"", "uuid", "bytea", "INTEGER", "integer ", "interval"}

DataTypeIds ==
    {BuiltinBOOL, BuiltinINT8, BuiltinINT2, BuiltinINT4, BuiltinTEXT, BuiltinFLOAT4,
     BuiltinFLOAT8, BuiltinMONEY, BuiltinVARCHAR, BuiltinDATE, BuiltinTIME,
     BuiltinTIMESTAMP, BuiltinTIMESTAMPTZ, BuiltinTIMETZ, BuiltinNUMERIC}
    \cup {-1, 0, 17, 114, 2950, 1701}

applyMapFieldType ==
    /\ mapped.fieldType = "unset"
    /\ mapped' = [mapped EXCEPT !.fieldType = mapFieldType(typeName)]
    /\ UNCHANGED <<credentials, client, pc, op, requests, config, events, results, outcome,
                   completed, typeName, dataTypeId>>

applyConvertDataTypeId ==
    /\ mapped.dimensionType = "unset"
    /\ mapped' = [mapped EXCEPT !.dimensionType = convertDataTypeIdToDimensionType(dataTypeId)]
    /\ UNCHANGED <<credentials, client, pc, op, requests, config, events, results, outcome,
                   completed, typeName, dataTypeId>>

MapInit ==
    /\ typeName \in TypeNames
    /\ dataTypeId \in DataTypeIds
    /\ mapped = NotMapped
    /\ credentials \in {c \in MainCredentials : c.host = <<"d", "b">> /\ ~c.sshTunnel.set}
    /\ client = NoClient
    /\ pc = "idle"
    /\ op = "none"
    /\ requests = <<>>
    /\ config = NoConfig
    /\ events = <<>>
    /\ results = NoResults
    /\ outcome = Pending
    /\ completed = 0

MapNext ==
    \/ applyMapFieldType
    \/ applyConvertDataTypeId

MapSpec == MapInit /\ [][MapNext]_vars

----------------------------------------------------------------------------
(* Properties of the error handling and of connect *)

EventIndices(name) == {i \in 1..Len(events) : events[i].e = name}

Count(name) == Cardinality(EventIndices(name))

Failed == pc = "done" /\ outcome.status = "threw"

\* the library failure that ended the call
Thrown == events[Len(events)].arg

ConnectStages == {"ssh.connect", "ssh.addTunnel", "new Pool"}

ConfiguredHost == encodeURIComponent(credentials.host)

ConfiguredPort == credentials.port

\* C1: a failure of ssh.connect, addTunnel or the pool's creation reaches the caller
\* as a WarehouseConnectionError with the library's message, and a
\* WarehouseQueryError reaches the caller only when pool.query itself failed.
ConnectFailureIsConnectionError ==
    Failed =>
        /\ Thrown.at \in ConnectStages =>
               outcome.error = WarehouseConnectionError(Thrown.error.message)
        /\ outcome.error.name = "WarehouseQueryError" => Thrown.at = "pool.query"

\* C2, as stated: connect and pool.query run at most once per call, a failed
\* pool.query ends the call with a WarehouseQueryError carrying the library's
\* message and no value, and test and getCatalog each issue exactly one runQuery.
NoRetryExactlyOneRunQuery ==
    /\ Count("connect") <= 1
    /\ Count("pool.query") <= 1
    /\ (Failed /\ Thrown.at = "pool.query") =>
           outcome = Threw(WarehouseQueryError(Thrown.error.message))
    /\ (pc = "done" /\ op \in {"test", "getCatalog"}) => Count("runQuery") = 1

\* C2, amended: as above, except that getCatalog issues exactly one runQuery when
\* its request list is not empty and none when it is empty.
NoRetry ==
    /\ Count("connect") <= 1
    /\ Count("pool.query") <= 1
    /\ Count("runQuery") <= 1
    /\ (Failed /\ Thrown.at = "pool.query") =>
           outcome = Threw(WarehouseQueryError(Thrown.error.message))
    /\ (pc = "done" /\ op = "test") => Count("runQuery") = 1
    /\ (pc = "done" /\ op = "getCatalog") =>
           Count("runQuery") = (IF requests = <<>> THEN 0 ELSE 1)

NoRetryWitness ==
    /\ Failed
    /\ op = "getCatalog"
    /\ Thrown.at = "pool.query"
    /\ Count("connect") = 1
    /\ Count("pool.query") = 1

\* C4: getCatalog with an empty database, schema or table set (which is the case
\* exactly when the request list is empty) returns the empty mapping without
\* having connected, tunnelled or queried.
EmptyRequestsReturnEmptyCatalog ==
    op = "getCatalog" =>
        LET sets == requestSets(requests)
            anyEmpty == sets.databases = {} \/ sets.schemas = {} \/ sets.tables = {}
        IN  /\ anyEmpty <=> requests = <<>>
            /\ anyEmpty =>
                   /\ pc = "done"
                   /\ outcome = Returned([catalog |-> EmptyObject])
                   /\ events = <<>>
                   /\ config = NoConfig
                   /\ results = NoResults

EmptyRequestsWitness ==
    /\ op = "getCatalog"
    /\ requests = <<>>
    /\ pc = "done"
    /\ outcome.status = "returned"

\* C7: with a tunnel, ssh.connect resolves, then addTunnel to the configured host
\* and port resolves, then the pool is created on localhost and the tunnel's local
\* port, and a failure of either leaves no pool and no query; without a tunnel
\* there is no SSH call and the pool is created on the configured host and port.
TunnelBeforePool ==
    \A i \in 1..Len(events) :
        /\ events[i].e \in {"ssh.connect", "ssh.addTunnel"} => client.sshTunnel.set
        /\ events[i].e = "ssh.addTunnel" =>
               /\ i > 1
               /\ events[i - 1].e = "ssh.connect"
               /\ events[i].arg.remoteAddr = ConfiguredHost
               /\ events[i].arg.remotePort = ConfiguredPort
        /\ events[i].e = "new Pool" =>
               IF client.sshTunnel.set
               THEN /\ i > 2
                    /\ events[i - 2].e = "ssh.connect"
                    /\ events[i - 1].e = "ssh.addTunnel"
                    /\ events[i].arg.host = Localhost
                    /\ events[i].arg.port = events[i - 1].arg.localPort
               ELSE /\ events[i].arg.host = ConfiguredHost
                    /\ events[i].arg.port = ConfiguredPort
        /\ events[i].e = "pool.query" => i > 1 /\ events[i - 1].e = "new Pool"
        /\ (events[i].e = "throw" /\ events[i].arg.at \in {"ssh.connect", "ssh.addTunnel"}) =>
               Count("new Pool") = 0 /\ Count("pool.query") = 0

TunnelBeforePoolWitness ==
    /\ client.sshTunnel.set
    /\ pc = "query"
    /\ Count("ssh.addTunnel") = 1
    /\ Count("new Pool") = 1

\* C9: connect leaves this.config alone: in every state the stored host and port
\* are the ones set at construction, each call starts from them, and each tunnel
\* targets them.
ConfigUnchanged ==
    client.constructed =>
        /\ client.config.host = ConfiguredHost
        /\ client.config.port = ConfiguredPort
        /\ pc \in {"sshConnect", "addTunnel"} =>
               config.host = ConfiguredHost /\ config.port = ConfiguredPort
        /\ \A i \in EventIndices("ssh.addTunnel") :
               /\ events[i].arg.remoteAddr = ConfiguredHost
               /\ events[i].arg.remotePort = ConfiguredPort

ConfigUnchangedWitness ==
    /\ completed >= 1
    /\ client.sshTunnel.set
    /\ Count("ssh.addTunnel") = 1
    /\ config.host = Localhost
    /\ client.config.host = ConfiguredHost

----------------------------------------------------------------------------
(* Properties of the catalog reduction *)

CatalogReturned == op = "getCatalog" /\ pc = "done" /\ outcome.status = "returned"

PathOf(row) == Path(row.table_catalog, row.table_schema, row.table_name)

Requested(path) == \E i \in 1..Len(requests) : requests[i] = path

\* each part of the row's path is in some request, so the row passes the WHERE clause
PartsRequested(row) ==
    /\ \E i \in 1..Len(requests) : requests[i].database = row.table_catalog
    /\ \E i \in 1..Len(requests) : requests[i].schema = row.table_schema
    /\ \E i \in 1..Len(requests) : requests[i].table = row.table_name

\* C3: every (catalog, schema, table) path of getCatalog's result is the
\* (database, schema, table) of one request, whatever rows the query returned.
CatalogOnlyRequestedPaths ==
    CatalogReturned =>
        LET catalog == outcome.value.catalog
        IN  \A d \in DOMAIN catalog :
                \A s \in DOMAIN catalog[d] :
                    \A t \in DOMAIN catalog[d][s] : Requested(Path(d, s, t))

CatalogOnlyRequestedPathsWitness ==
    /\ CatalogReturned
    /\ results # NoResults
    /\ outcome.value.catalog # EmptyObject
    /\ \E i \in 1..Len(results.rows) :
           PartsRequested(results.rows[i]) /\ ~Requested(PathOf(results.rows[i]))

\* the last row of the query result with the path and column of row i
LastRowLike(i) ==
    LET rows == results.rows
        same == {j \in 1..Len(rows) :
                     PathOf(rows[j]) = PathOf(rows[i])
                     /\ rows[j].column_name = rows[i].column_name}
    IN  rows[CHOOSE j \in same : \A k \in same : k <= j]

\* C8: for every returned row whose path is requested, the result holds the row's
\* column under catalog, schema and table, with mapFieldType of the data_type of the
\* last returned row of that path and column.
CatalogComplete ==
    (CatalogReturned /\ results # NoResults) =>
        LET catalog == outcome.value.catalog
        IN  \A i \in 1..Len(results.rows) :
                LET row == results.rows[i]
                IN  Requested(PathOf(row)) =>
                        /\ row.table_catalog \in DOMAIN catalog
                        /\ row.table_schema \in DOMAIN catalog[row.table_catalog]
                        /\ row.table_name
                               \in DOMAIN catalog[row.table_catalog][row.table_schema]
                        /\ row.column_name
                               \in DOMAIN catalog[row.table_catalog][row.table_schema][row.table_name]
                        /\ catalog[row.table_catalog][row.table_schema][row.table_name][row.column_name]
                               = mapFieldType(LastRowLike(i).data_type)

CatalogCompleteWitness ==
    /\ CatalogReturned
    /\ results # NoResults
    /\ Len(results.rows) = 2
    /\ Requested(PathOf(results.rows[1]))
    /\ PathOf(results.rows[1]) = PathOf(results.rows[2])
    /\ results.rows[1].column_name = results.rows[2].column_name
    /\ mapFieldType(results.rows[1].data_type) # mapFieldType(results.rows[2].data_type)

----------------------------------------------------------------------------
(* Properties of the mapping tables *)

MapFieldTypeCases ==
    {"decimal", "numeric", "integer", "money", "smallserial", "serial", "serial2",
     "serial4", "serial8", "bigserial", "int2", "int4", "int8", "bigint", "smallint",
     "float", "float4", "float8", "double precision", "real", "date", "time", "timetz",
     "timestamp", "timestamptz", "time without time zone",
     "timestamp without time zone", "boolean", "bool"}

ConvertCases ==
    {BuiltinNUMERIC, BuiltinMONEY, BuiltinINT2, BuiltinINT4, BuiltinINT8, BuiltinFLOAT4,
     BuiltinFLOAT8, BuiltinDATE, BuiltinTIME, BuiltinTIMETZ, BuiltinTIMESTAMP,
     BuiltinTIMESTAMPTZ, BuiltinBOOL}

\* C5: each mapping function yields one of the five dimension types for every
\* input, and STRING for every input that is not the label of one of its cases.
MappingTotal ==
    /\ mapped.fieldType # "unset" =>
           /\ mapped.fieldType \in DimensionType
           /\ typeName \notin MapFieldTypeCases => mapped.fieldType = "STRING"
    /\ mapped.dimensionType # "unset" =>
           /\ mapped.dimensionType \in DimensionType
           /\ dataTypeId \notin ConvertCases => mapped.dimensionType = "STRING"

MappingTotalWitness ==
    /\ typeName = "uuid"
    /\ mapped.fieldType = "STRING"
    /\ dataTypeId = 2950
    /\ mapped.dimensionType = "STRING"

JsonAndCharacterNames ==
    {"json", "jsonb", "char", "character", "nchar", "bpchar", "varchar",
     "character varying", "nvarchar", "text"}

DeclaredNumberNames ==
    {"integer", "int", "int2", "int4", "int8", "bigint", "smallint", "smallserial",
     "serial", "serial2", "serial4", "serial8", "bigserial", "money", "numeric",
     "decimal", "real", "float", "float4", "float8", "double precision"}

DeclaredTimeNames ==
    {"time", "timetz", "time without time zone", "timestamp", "timestamptz",
     "timestamp without time zone"}

\* C10: of the names declared in PostgresTypes, only the json and character names
\* map to STRING; the integer, serial, money, decimal and floating-point names
\* (int among them) map to NUMBER, date to DATE, the time and timestamp names to
\* TIMESTAMP, boolean and bool to BOOLEAN.
DeclaredNamesMapping ==
    (mapped.fieldType # "unset" /\ typeName \in PostgresTypes) =>
        /\ mapped.fieldType = "STRING" <=> typeName \in JsonAndCharacterNames
        /\ typeName \in DeclaredNumberNames => mapped.fieldType = "NUMBER"
        /\ typeName = "date" => mapped.fieldType = "DATE"
        /\ typeName \in DeclaredTimeNames => mapped.fieldType = "TIMESTAMP"
        /\ typeName \in {"boolean", "bool"} => mapped.fieldType = "BOOLEAN"

----------------------------------------------------------------------------
(* Properties of construction *)

\* C6: construction with an sslmode string that is not one of the seven modes, the
\* empty string included, fails with an error and leaves no client.
UnrecognisedModeFailsConstruction ==
    (/\ client # NoClient
     /\ credentials.sslmode # <<>>
     /\ credentials.sslmode[1] \notin RecognisedModes) =>
        ~client.constructed /\ client.error # <<>>

====
